---- MODULE Spec2Model ----
(***************************************************************************)
(* Osmosify flashcards practice session (FlashcardsScreen), the word store *)
(* it writes back to (ChildrenContext.updateWord, storage.saveWord) and    *)
(* the speech listener it drives (speech.startListening).                  *)
(*                                                                         *)
(* The component state is gathered in a record (St) so that a handler is   *)
(* an operator from record to record; an action applies one handler, then  *)
(* the render and the effects it triggers (Commit).  A callback that React *)
(* keeps from an earlier render (the interval of the timer effect, the     *)
(* memoized toggleListening, a pending feedback timeout) reads the values  *)
(* of that render: they are kept as closure records.                       *)
(*                                                                         *)
(* The word matching of speech.ts (checkWordMatch and what it calls) is    *)
(* computed on strings as sequences of characters; MatchSpec applies it to *)
(* one transcript and one target at a time.  ListenSpec is the session on  *)
(* a device without the native speech module, StoreSpec is saveWord called *)
(* on any array of stored records, one call after the other.  RespellSpec *)
(* applies checkWordMatch to short strings and their respellings, and      *)
(* ContinuousSpec is speech.startContinuousListening with its recognizer   *)
(* events and a caller that may stop or retarget it from onWordMatch.      *)
(***************************************************************************)
EXTENDS Integers, Sequences, FiniteSets, TLC

\* ------------------------------------------------------------------ bounds
NumWords == 3        \* words of the child in the word store
MaxThreshold == 2    \* the child's masteryThreshold setting ranges over 1..MaxThreshold
TimerSetting == 2    \* the child's timerSeconds setting
MaxVerdicts == 2     \* accepted verdicts explored in one behaviour
MaxHandles == 2      \* speech listener handles subscribed at one time
MaxSpeechWords == 1  \* eligible words of the sessions explored with speech recognition
MissCap == 4         \* presentations counted after a miss (the bound the spec states)
MaxChars == 3        \* length of the transcripts and targets enumerated over Alphabet
MaxTargetLen == 11   \* length of the longest target of the tolerance table
MaxEdits == 4        \* substitutions made in a transcript of the tolerance table
MaxTargets == 2      \* target words of a continuous listener
MaxEvents == 2       \* end events and error events delivered to a continuous listener

Ids == 1..NumWords

VARIABLES
    masteryThreshold,  \* child.masteryThreshold
    demoteOnMiss,      \* child.demoteOnMiss
    speechAvailable,   \* speechAvailable state (supported and permission granted)
    words,             \* context `words`: the live Word objects, by id
    store,             \* AsyncStorage '@osmosify:words': sequence of saved records
    saves,             \* updateWord calls in flight
    childWords,        \* memoized eligible words of the last render
    wordProgress,      \* Map id -> WordProgress
    queue,
    masteredIds,
    showFeedback,      \* "none" | "correct" | "incorrect"
    isComplete,
    timeLeft,
    isPaused,
    isListening,
    listenerRef,       \* <<>> or <<handle>>: listenerRef.current
    leaked,            \* handles still subscribed that no ref points to
    stoppedHandles,    \* <<>> or <<handle>>: the handle the last handler called stop()
                       \* on; an event already emitted can still reach its listeners
    callbacks,         \* the callbacks the last startListening made before it returned
    recognizing,       \* the recognizer was started and has not signalled end
    timeouts,          \* pending feedback timeouts (closures of handleAnswer)
    timerEnv,          \* render values the running interval's handleAnswer closes over
    toggleEnv,         \* render values the memoized toggleListening closes over
    startIds,          \* observer: ids eligible when the session started
    nVerdicts,         \* observer: verdicts accepted so far
    sessionCorrects,   \* observer: correct verdicts accepted per word this session
    missAge,           \* observer: presentations since a word's last miss, -1 if none
    spoken,            \* checkWordMatch: the transcript, a string
    target,            \* checkWordMatch: the target word, a string
    matchResult,       \* "pending", or "match" / "nomatch" once checkWordMatch returned
    continuous         \* startContinuousListening: the closure of the handle it
                       \* returned, the recognizer, and counts of the callbacks made

vars == << masteryThreshold, demoteOnMiss, speechAvailable, words, store, saves,
           childWords, wordProgress, queue, masteredIds, showFeedback, isComplete,
           timeLeft, isPaused, isListening, listenerRef, leaked, stoppedHandles,
           callbacks, recognizing, timeouts, timerEnv, toggleEnv, startIds, nVerdicts,
           sessionCorrects, missAge, spoken, target, matchResult, continuous >>

timerSeconds == TimerSetting

\* ------------------------------------------------------------------ helpers
RECURSIVE Perms(_)
Perms(S) ==
    IF S = {} THEN { <<>> }
    ELSE UNION { { <<x>> \o p : p \in Perms(S \ {x}) } : x \in S }

Range(f) == { f[i] : i \in DOMAIN f }

RemoveAt(seq, i) == SubSeq(seq, 1, i - 1) \o SubSeq(seq, i + 1, Len(seq))

InsertAt(seq, pos, x) == SubSeq(seq, 1, pos) \o <<x>> \o SubSeq(seq, pos + 1, Len(seq))

Min(a, b) == IF a <= b THEN a ELSE b

\* a variant of the filter below without the status test
Eligible_anyStatus(ws) == Ids

\* words.filter(w => w.childId === id && (w.status === 'new' || w.status === 'learning'))
Eligible(ws) == { id \in Ids : ws[id].status \in {"new", "learning"} }

\* the state a handler starts from: the listeners of the handle stopped by the
\* handler before it are removed
St == [ words |-> words, store |-> store, saves |-> saves, childWords |-> childWords,
        wordProgress |-> wordProgress, queue |-> queue, masteredIds |-> masteredIds,
        showFeedback |-> showFeedback, isComplete |-> isComplete, timeLeft |-> timeLeft,
        isPaused |-> isPaused, isListening |-> isListening, listenerRef |-> listenerRef,
        leaked |-> leaked, stoppedHandles |-> <<>>, callbacks |-> callbacks,
        recognizing |-> recognizing, timeouts |-> timeouts,
        timerEnv |-> timerEnv, toggleEnv |-> toggleEnv, startIds |-> startIds,
        nVerdicts |-> nVerdicts,
        sessionCorrects |-> sessionCorrects, missAge |-> missAge ]

\* the values of one render that handleAnswer closes over
Snap(s) == [ queue |-> s.queue, wordProgress |-> s.wordProgress,
             masteredIds |-> s.masteredIds, childWords |-> s.childWords ]

currentWordId(s) == IF s.queue = <<>> THEN 0 ELSE Head(s.queue)

\* currentProgress?.word: 0 stands for undefined
currentWord(s) ==
    IF currentWordId(s) \in DOMAIN s.wordProgress THEN currentWordId(s) ELSE 0

\* ------------------------------------------------------------------ handleAnswer
\* a variant of the update below that demotes a missed mastered word whatever
\* demoteOnMiss says
WordAfterVerdict_demoteAlways(word, isCorrect) ==
    IF isCorrect
    THEN LET n == word.masteryCorrectCount + 1
         IN  [ word EXCEPT !.masteryCorrectCount = n,
                           !.status = IF n >= masteryThreshold THEN "mastered"
                                      ELSE IF @ = "new" THEN "learning" ELSE @ ]
    ELSE IF word.status = "mastered"
         THEN [ word EXCEPT !.status = "learning" ]
         ELSE word

\* a variant of the update below that promotes only above the threshold
WordAfterVerdict_strictThreshold(word, isCorrect) ==
    IF isCorrect
    THEN LET n == word.masteryCorrectCount + 1
         IN  [ word EXCEPT !.masteryCorrectCount = n,
                           !.status = IF n > masteryThreshold THEN "mastered"
                                      ELSE IF @ = "new" THEN "learning" ELSE @ ]
    ELSE IF demoteOnMiss /\ word.status = "mastered"
         THEN [ word EXCEPT !.status = "learning" ]
         ELSE word

\* a variant of the update below in which a miss sends a learning word back to new
WordAfterVerdict_missResets(word, isCorrect) ==
    IF isCorrect
    THEN LET n == word.masteryCorrectCount + 1
         IN  [ word EXCEPT !.masteryCorrectCount = n,
                           !.status = IF n >= masteryThreshold THEN "mastered"
                                      ELSE IF @ = "new" THEN "learning" ELSE @ ]
    ELSE IF demoteOnMiss /\ word.status = "mastered"
         THEN [ word EXCEPT !.status = "learning" ]
         ELSE IF word.status = "learning" THEN [ word EXCEPT !.status = "new" ]
         ELSE word

\* a variant of the update below in which a demotion also clears the cumulative count
WordAfterVerdict_demotionClearsCount(word, isCorrect) ==
    IF isCorrect
    THEN LET n == word.masteryCorrectCount + 1
         IN  [ word EXCEPT !.masteryCorrectCount = n,
                           !.status = IF n >= masteryThreshold THEN "mastered"
                                      ELSE IF @ = "new" THEN "learning" ELSE @ ]
    ELSE IF demoteOnMiss /\ word.status = "mastered"
         THEN [ word EXCEPT !.status = "learning", !.masteryCorrectCount = 0 ]
         ELSE word

\* flashcards.tsx 222-232: the status and counter update of the answered Word
WordAfterVerdict(word, isCorrect) ==
    IF isCorrect
    THEN LET n == word.masteryCorrectCount + 1
         IN  [ word EXCEPT !.masteryCorrectCount = n,
                           !.status = IF n >= masteryThreshold THEN "mastered"
                                      ELSE IF @ = "new" THEN "learning" ELSE @ ]
    ELSE IF demoteOnMiss /\ word.status = "mastered"
         THEN [ word EXCEPT !.status = "learning" ]
         ELSE word

\* flashcards.tsx 210-219: the session-local progress of the answered word
ProgressAfterVerdict(prog, isCorrect) ==
    [ sessionCorrectCount |-> prog.sessionCorrectCount + (IF isCorrect THEN 1 ELSE 0),
      totalAttempts |-> prog.totalAttempts + 1 ]

\* handleAnswer as created by the render whose values are env; s is the state it
\* runs in.  The setTimeout callback is queued with the values it closes over.
handleAnswer(s, env, isCorrect) ==
    LET id == IF env.queue = <<>> THEN 0 ELSE Head(env.queue)
    IN  IF id \notin DOMAIN env.wordProgress
        THEN s
        ELSE LET updatedWordProg == ProgressAfterVerdict(env.wordProgress[id], isCorrect)
             IN  [ s EXCEPT
                     !.showFeedback = IF isCorrect THEN "correct" ELSE "incorrect",
                     !.wordProgress = [ env.wordProgress EXCEPT ![id] = updatedWordProg ],
                     !.words = [ @ EXCEPT ![id] = WordAfterVerdict(@, isCorrect) ],
                     !.saves = Append(@, [ id |-> id, pc |-> "read", data |-> <<>> ]),
                     !.timeouts = Append(@, [ id |-> id,
                                              sessionCorrectCount |-> updatedWordProg.sessionCorrectCount,
                                              queue |-> env.queue,
                                              masteredIds |-> env.masteredIds,
                                              childWords |-> env.childWords ]),
                     !.nVerdicts = @ + 1,
                     !.sessionCorrects = [ @ EXCEPT ![id] = @ + (IF isCorrect THEN 1 ELSE 0) ],
                     !.missAge = [ @ EXCEPT ![id] = IF isCorrect THEN @ ELSE 0 ] ]

\* a variant of the reinsertion below that drops the missed word from the queue
Reinsert_dropsWord(newQueue, id) == newQueue

\* flashcards.tsx 261-271: put the word back, at position 3 or at the end
Reinsert(newQueue, id) ==
    IF newQueue = <<>> THEN <<id>>
    ELSE InsertAt(newQueue, Min(Len(newQueue), 3), id)

\* the ids the reshuffle branch (253-256) draws its order from
Remaining(c) == c.childWords \ (Range(c.masteredIds) \cup {c.id})

\* does the timeout of closure c take the reshuffle branch
Reshuffles(c) ==
    /\ c.sessionCorrectCount >= masteryThreshold
    /\ Len(c.masteredIds) + 1 < Cardinality(c.childWords)
    /\ Tail(c.queue) = <<>>

\* the timeout callback without its setTimeLeft
feedbackTimeout_keepsCountdown(s, c, perm) ==
    LET newQueue == Tail(c.queue)
        wordJustMastered == c.sessionCorrectCount >= masteryThreshold
        newMasteredIds == Append(c.masteredIds, c.id)
        base == [ s EXCEPT !.showFeedback = "none" ]
    IN  IF wordJustMastered
        THEN IF Len(newMasteredIds) >= Cardinality(c.childWords)
             THEN [ base EXCEPT !.masteredIds = newMasteredIds,
                                !.isComplete = TRUE,
                                !.missAge = [ id \in Ids |-> -1 ] ]
             ELSE IF newQueue = <<>>
             THEN [ base EXCEPT !.masteredIds = newMasteredIds, !.queue = perm ]
             ELSE [ base EXCEPT !.masteredIds = newMasteredIds,
                                !.queue = SelectSeq(newQueue, LAMBDA x : x # c.id) ]
        ELSE [ base EXCEPT !.queue = Reinsert(newQueue, c.id) ]

\* flashcards.tsx 236-272: the setTimeout callback of handleAnswer, closure c;
\* perm is the order Math.random gives the reshuffle
feedbackTimeout(s, c, perm) ==
    LET newQueue == Tail(c.queue)
        wordJustMastered == c.sessionCorrectCount >= masteryThreshold
        newMasteredIds == Append(c.masteredIds, c.id)
        base == [ s EXCEPT !.showFeedback = "none", !.timeLeft = timerSeconds ]
    IN  IF wordJustMastered
        THEN IF Len(newMasteredIds) >= Cardinality(c.childWords)
             THEN [ base EXCEPT !.masteredIds = newMasteredIds,
                                !.isComplete = TRUE,
                                !.missAge = [ id \in Ids |-> -1 ] ]
             ELSE IF newQueue = <<>>
             THEN [ base EXCEPT !.masteredIds = newMasteredIds, !.queue = perm ]
             ELSE [ base EXCEPT !.masteredIds = newMasteredIds,
                                !.queue = SelectSeq(newQueue, LAMBDA x : x # c.id) ]
        ELSE [ base EXCEPT !.queue = Reinsert(newQueue, c.id) ]

\* ------------------------------------------------------------------ render and effects
\* a variant of the effect below that builds progress entries for new words only
initializeSession_newOnly(s, perm) ==
    IF s.childWords = {} THEN s
    ELSE [ s EXCEPT !.wordProgress = [ id \in { w \in s.childWords : s.words[w].status = "new" } |->
                                         [ sessionCorrectCount |-> 0, totalAttempts |-> 0 ] ],
                    !.queue = perm,
                    !.timeLeft = timerSeconds ]

\* flashcards.tsx 62-78: the "Initialize session" effect, run whenever childWords
\* is a new array; perm is the order Math.random gives the shuffle
initializeSession(s, perm) ==
    IF s.childWords = {} THEN s
    ELSE [ s EXCEPT !.wordProgress = [ id \in s.childWords |->
                                         [ sessionCorrectCount |-> 0, totalAttempts |-> 0 ] ],
                    !.queue = perm,
                    !.timeLeft = timerSeconds ]

\* dependency lists
TimerDeps(s) == << currentWord(s), s.showFeedback, s.isComplete, s.isPaused >>
ToggleDeps(s) == << currentWord(s), s.isListening, s.showFeedback >>
SpeakDeps(s) == << currentWord(s), s.showFeedback, s.isComplete >>
StopDeps(s) == << s.showFeedback, s.isComplete >>

\* flashcards.tsx 85-91: the interval runs only in these renders
TimerRuns(s) ==
    currentWord(s) # 0 /\ s.showFeedback = "none" /\ ~s.isComplete /\ ~s.isPaused

\* flashcards.tsx 111-115: the word is spoken, a presentation
Presented(s) ==
    LET w == currentWord(s)
    IN  [ s EXCEPT !.missAge = [ id \in Ids |->
            IF id = w THEN -1
            ELSE IF @[id] >= 0 /\ @[id] < MissCap THEN @[id] + 1 ELSE @[id] ] ]

\* listenerRef.current?.stop(): speech.ts 140-148 sets the flag of the handle and
\* removes its listeners; the handle of speech.ts 96 does nothing
stop(s) ==
    IF s.listenerRef = <<>> \/ s.listenerRef[1].noop THEN s
    ELSE [ s EXCEPT !.stoppedHandles = << [ s.listenerRef[1] EXCEPT !.stopped = TRUE ] >> ]

\* flashcards.tsx 127-134: stop listening when feedback is shown or on completion
stopListening(s) == [ stop(s) EXCEPT !.listenerRef = <<>>, !.isListening = FALSE ]

\* one render after prev: memoized callbacks and effects whose dependencies changed
\* take the values of this render
Render(prev, cur) ==
    LET a == IF ToggleDeps(prev) # ToggleDeps(cur)
             THEN [ cur EXCEPT !.toggleEnv = Snap(cur) ] ELSE cur
        b == IF TimerDeps(prev) # TimerDeps(cur)
             THEN [ a EXCEPT !.timerEnv = Snap(cur) ] ELSE a
    IN  IF /\ SpeakDeps(prev) # SpeakDeps(cur)
           /\ currentWord(cur) # 0 /\ cur.showFeedback = "none" /\ ~cur.isComplete
        THEN Presented(b) ELSE b

\* the state updates the effects of render cur make
Effects(prev, cur, wordsChanged, perm) ==
    LET a == IF wordsChanged THEN initializeSession(cur, perm) ELSE cur
    IN  IF StopDeps(prev) # StopDeps(cur) /\ (cur.showFeedback # "none" \/ cur.isComplete)
        THEN stopListening(a) ELSE a

\* the state after the renders that follow a handler: next is the state the handler
\* left, wordsChanged says that the context's words array is a new array
Rendered(prev, next, wordsChanged, perm) ==
    LET n1 == IF wordsChanged THEN [ next EXCEPT !.childWords = Eligible(next.words) ] ELSE next
        r1 == Render(prev, n1)
        r2 == Effects(prev, r1, wordsChanged, perm)
    IN  Render(r1, r2)

Commit(s) ==
    /\ words' = s.words
    /\ store' = s.store
    /\ saves' = s.saves
    /\ childWords' = s.childWords
    /\ wordProgress' = s.wordProgress
    /\ queue' = s.queue
    /\ masteredIds' = s.masteredIds
    /\ showFeedback' = s.showFeedback
    /\ isComplete' = s.isComplete
    /\ timeLeft' = s.timeLeft
    /\ isPaused' = s.isPaused
    /\ isListening' = s.isListening
    /\ listenerRef' = s.listenerRef
    /\ leaked' = s.leaked
    /\ stoppedHandles' = s.stoppedHandles
    /\ callbacks' = s.callbacks
    /\ recognizing' = s.recognizing
    /\ timeouts' = s.timeouts
    /\ timerEnv' = s.timerEnv
    /\ toggleEnv' = s.toggleEnv
    /\ startIds' = s.startIds
    /\ nVerdicts' = s.nVerdicts
    /\ sessionCorrects' = s.sessionCorrects
    /\ missAge' = s.missAge
    /\ UNCHANGED << masteryThreshold, demoteOnMiss, speechAvailable >>
    /\ UNCHANGED << spoken, target, matchResult, continuous >>

\* ------------------------------------------------------------------ speech listener
\* flashcards.tsx 159-166: the onMatch callback of a listener started in render env
onMatch(s, h) ==
    handleAnswer([ stop(s) EXCEPT !.listenerRef = <<>>, !.isListening = FALSE ], h.env, TRUE)

\* flashcards.tsx 167-173: the onNoMatch callback
onNoMatch(s) == [ stop(s) EXCEPT !.listenerRef = <<>>, !.isListening = FALSE ]

\* flashcards.tsx 174-183: onError and onEnd drop the ref without stopping the
\* handle, whose subscriptions (speech.ts 132-138) therefore stay
onError(s) ==
    [ s EXCEPT !.leaked = @ \o SelectSeq(s.listenerRef, LAMBDA h : ~h.noop),
               !.listenerRef = <<>>, !.isListening = FALSE ]

onEnd(s) == onError(s)

\* handleResult without the test of the flag stop() sets
handleResult_ignoresStopped(s, h, matches, isFinal) ==
    IF h.target \in matches THEN onMatch(s, h)
    ELSE IF isFinal THEN onNoMatch(s)
    ELSE s

\* speech.ts 102-121: handleResult of handle h for a transcript that checkWordMatch
\* matches against the targets in `matches`
handleResult(s, h, matches, isFinal) ==
    IF h.stopped THEN s
    ELSE IF h.target \in matches THEN onMatch(s, h)
    ELSE IF isFinal THEN onNoMatch(s)
    ELSE s

\* speech.ts 133-135: the 'error' listener of handle h
errorListener(s, h) == IF h.stopped THEN s ELSE onError(s)

\* speech.ts 136-138: the 'end' listener of handle h
endListener(s, h) == IF h.stopped THEN s ELSE onEnd(s)

\* one 'result' event, delivered to the subscribed handlers in subscription order
RECURSIVE deliverResult(_, _, _, _)
deliverResult(s, hs, matches, isFinal) ==
    IF hs = <<>> THEN s
    ELSE deliverResult(handleResult(s, Head(hs), matches, isFinal), Tail(hs), matches, isFinal)

\* the listener of the handle listenerRef held when the event was emitted: a handler
\* that ran before it may have stopped the handle
deliverToRef(s, h, matches, isFinal) ==
    handleResult(s, [ h EXCEPT !.stopped = (s.listenerRef = <<>>) ], matches, isFinal)

\* the startListening that reports one error and no end
startListening_noEnd(s, present) ==
    IF present
    THEN [ s EXCEPT !.callbacks = <<>>,
                    !.listenerRef = << [ target |-> currentWord(s), env |-> s.toggleEnv,
                                         stopped |-> FALSE, noop |-> FALSE ] >>,
                    !.recognizing = TRUE ]
    ELSE [ onError(s) EXCEPT
                    !.callbacks = << "error" >>,
                    !.listenerRef = << [ target |-> currentWord(s), env |-> s.toggleEnv,
                                         stopped |-> FALSE, noop |-> TRUE ] >> ]

\* speech.ts 86-159, called at flashcards.tsx 154 with the callbacks of lines 156-183;
\* present says that the native module exists (speech.ts 93)
startListening(s, present) ==
    IF present
    THEN [ s EXCEPT !.callbacks = <<>>,
                    !.listenerRef = << [ target |-> currentWord(s), env |-> s.toggleEnv,
                                         stopped |-> FALSE, noop |-> FALSE ] >>,
                    !.recognizing = TRUE ]
    ELSE [ onEnd(onError(s)) EXCEPT
                    !.callbacks = << "error", "end" >>,
                    !.listenerRef = << [ target |-> currentWord(s), env |-> s.toggleEnv,
                                         stopped |-> FALSE, noop |-> TRUE ] >> ]

\* flashcards.tsx 143-185
toggleListening(s, present) ==
    IF s.isListening
    THEN [ stop(s) EXCEPT !.listenerRef = <<>>, !.isListening = FALSE ]
    ELSE startListening([ s EXCEPT !.isListening = TRUE ], present)

\* ------------------------------------------------------------------ word store
WordRecord(id, w) ==
    [ id |-> id, status |-> w.status, masteryCorrectCount |-> w.masteryCorrectCount,
      incorrectCount |-> w.incorrectCount ]

\* a saveWord that pushes the record whatever the array holds
Upsert_pushesAlways(all, rec) == Append(all, rec)

\* part_000 85-90: findIndex, then replace in place or push
Upsert(all, rec) ==
    IF \E i \in 1..Len(all) : all[i].id = rec.id
    THEN LET index == CHOOSE i \in 1..Len(all) :
                        all[i].id = rec.id /\ \A j \in 1..(i - 1) : all[j].id # rec.id
         IN  [ all EXCEPT ![index] = rec ]
    ELSE Append(all, rec)

\* ------------------------------------------------------------------ screens
\* flashcards.tsx 284-336: which screen the render returns
EmptyScreen(s) == s.childWords = {}
CompleteScreen(s) == ~EmptyScreen(s) /\ s.isComplete
MainScreen(s) == ~EmptyScreen(s) /\ ~s.isComplete /\ currentWord(s) # 0

\* a variant of handleRestart that also clears the words' cumulative counters
handleRestart_clearsCounters(s, perm) ==
    [ s EXCEPT !.isComplete = FALSE, !.masteredIds = <<>>, !.showFeedback = "none",
               !.queue = perm, !.timeLeft = timerSeconds,
               !.words = [ id \in Ids |-> [ @[id] EXCEPT !.masteryCorrectCount = 0,
                                                          !.incorrectCount = 0 ] ],
               !.startIds = s.childWords,
               !.sessionCorrects = [ id \in Ids |-> 0 ],
               !.missAge = [ id \in Ids |-> -1 ] ]

\* flashcards.tsx 275-282
handleRestart(s, perm) ==
    [ s EXCEPT !.isComplete = FALSE, !.masteredIds = <<>>, !.showFeedback = "none",
               !.queue = perm, !.timeLeft = timerSeconds,
               !.startIds = s.childWords,
               !.sessionCorrects = [ id \in Ids |-> 0 ],
               !.missAge = [ id \in Ids |-> -1 ] ]

\* ------------------------------------------------------------------ initial state
InitWordRecords ==
    { [ status |-> "new", masteryCorrectCount |-> 0, incorrectCount |-> 0 ],
      [ status |-> "learning", masteryCorrectCount |-> 1, incorrectCount |-> 0 ],
      [ status |-> "mastered", masteryCorrectCount |-> MaxThreshold, incorrectCount |-> 0 ] }

Rank(status) == IF status = "new" THEN 0 ELSE IF status = "learning" THEN 1 ELSE 2

\* position of id in a sequence without duplicates
Pos(seq, id) == CHOOSE i \in 1..Len(seq) : seq[i] = id

\* flashcards.tsx 31-59: the values of the first render, before any effect has run
Mounted(ws) ==
    LET env == [ queue |-> <<>>, wordProgress |-> <<>>, masteredIds |-> <<>>,
                 childWords |-> Eligible(ws) ]
    IN  [ words |-> ws,
          store |-> [ i \in 1..NumWords |-> WordRecord(i, ws[i]) ],
          saves |-> <<>>,
          childWords |-> Eligible(ws),
          wordProgress |-> <<>>,
          queue |-> <<>>,
          masteredIds |-> <<>>,
          showFeedback |-> "none",
          isComplete |-> FALSE,
          timeLeft |-> timerSeconds,
          isPaused |-> FALSE,
          isListening |-> FALSE,
          listenerRef |-> <<>>,
          leaked |-> <<>>,
          stoppedHandles |-> <<>>,
          callbacks |-> <<>>,
          recognizing |-> FALSE,
          timeouts |-> <<>>,
          timerEnv |-> env,
          toggleEnv |-> env,
          startIds |-> Eligible(ws),
          nVerdicts |-> 0,
          sessionCorrects |-> [ id \in Ids |-> 0 ],
          missAge |-> [ id \in Ids |-> -1 ] ]

\* startContinuousListening has not been called: there is no handle.  The fields
\* wordMatches (onWordMatch calls per index since the last updateTargetWords),
\* afterStop (onWordMatch calls made once stopped is set), starts, ends, onEnds and
\* onErrors count calls; indices are counted from 1.
NotStarted ==
    [ handle |-> "none", currentTargets |-> <<>>, matchedIndices |-> {},
      stopped |-> FALSE, onAllMatches |-> FALSE, recognizing |-> FALSE,
      wordMatches |-> [ i \in 1..MaxTargets |-> 0 ], afterStop |-> 0,
      starts |-> 0, ends |-> 0, onEnds |-> 0, onErrors |-> 0 ]

\* The child's settings and words when the screen is opened, with the values of the
\* first render.  Ids are names: the records are taken in one order of status.
SessionInit ==
    /\ masteryThreshold \in 1..MaxThreshold
    /\ demoteOnMiss \in BOOLEAN
    /\ speechAvailable \in BOOLEAN
    /\ words \in [ Ids -> InitWordRecords ]
    /\ \A i \in Ids, j \in Ids : i < j => Rank(words[i].status) <= Rank(words[j].status)
    /\ speechAvailable => Cardinality(Eligible(words)) <= MaxSpeechWords
    /\ LET s == Mounted(words)
       IN  /\ store = s.store
           /\ saves = s.saves
           /\ childWords = s.childWords
           /\ wordProgress = s.wordProgress
           /\ queue = s.queue
           /\ masteredIds = s.masteredIds
           /\ showFeedback = s.showFeedback
           /\ isComplete = s.isComplete
           /\ timeLeft = s.timeLeft
           /\ isPaused = s.isPaused
           /\ isListening = s.isListening
           /\ listenerRef = s.listenerRef
           /\ leaked = s.leaked
           /\ stoppedHandles = s.stoppedHandles
           /\ callbacks = s.callbacks
           /\ recognizing = s.recognizing
           /\ timeouts = s.timeouts
           /\ timerEnv = s.timerEnv
           /\ toggleEnv = s.toggleEnv
           /\ startIds = s.startIds
           /\ nVerdicts = s.nVerdicts
           /\ sessionCorrects = s.sessionCorrects
           /\ missAge = s.missAge

\* no word is being matched while the session is explored
Init ==
    /\ SessionInit
    /\ spoken = "" /\ target = "" /\ matchResult = "pending"
    /\ continuous = NotStarted

\* ------------------------------------------------------------------ actions
\* flashcards.tsx 62-78: the effects of the first render run, the session starts.
\* Of two words with equal records the shuffle puts the one with the lower id first.
StartSession ==
    /\ DOMAIN wordProgress = {} /\ childWords # {}
    /\ \E perm \in Perms(childWords) :
           /\ \A i \in childWords, j \in childWords :
                  (i < j /\ words[i] = words[j]) => Pos(perm, i) < Pos(perm, j)
           /\ Commit(Rendered(St, St, TRUE, perm))

\* flashcards.tsx 481-497: the Correct and Incorrect buttons, disabled during
\* feedback and covered by the pause overlay (436-447)
AnswerButton ==
    \E isCorrect \in BOOLEAN :
        /\ MainScreen(St) /\ showFeedback = "none" /\ ~isPaused
        /\ nVerdicts < MaxVerdicts
        /\ Commit(Rendered(St, handleAnswer(St, Snap(St), isCorrect), FALSE, <<>>))

\* flashcards.tsx 93-101: one firing of the interval
Tick ==
    /\ TimerRuns(St)
    /\ IF timeLeft <= 1
       THEN /\ nVerdicts < MaxVerdicts
            /\ Commit(Rendered(St, [ handleAnswer(St, timerEnv, FALSE) EXCEPT !.timeLeft = 0 ],
                               FALSE, <<>>))
       ELSE Commit([ St EXCEPT !.timeLeft = @ - 1 ])

\* flashcards.tsx 236-272: a pending feedback timeout fires
FeedbackTimeout ==
    \E i \in 1..Len(timeouts) :
        LET c == timeouts[i]
            s == [ St EXCEPT !.timeouts = RemoveAt(@, i) ]
        IN  \E perm \in (IF Reshuffles(c) THEN Perms(Remaining(c)) ELSE { <<>> }) :
                Commit(Rendered(St, feedbackTimeout(s, c, perm), FALSE, <<>>))

\* part_000 84-90: saveWord has read all words and prepared the array to write
SaveRead ==
    \E i \in 1..Len(saves) :
        /\ saves[i].pc = "read"
        /\ Commit([ St EXCEPT !.saves[i] =
                      [ @ EXCEPT !.pc = "write",
                                 !.data = Upsert(store, WordRecord(saves[i].id, words[saves[i].id])) ] ])

\* part_000 91 and part_002 208-211: the array is written, then setWords gives the
\* context a new words array
SaveWrite ==
    \E i \in 1..Len(saves) :
        /\ saves[i].pc = "write"
        /\ \E perm \in Perms(Eligible(words)) :
               Commit(Rendered(St, [ St EXCEPT !.store = saves[i].data,
                                               !.saves = RemoveAt(@, i) ],
                               TRUE, perm))

\* flashcards.tsx 359-364: the pause button of the header
Pause ==
    /\ MainScreen(St) /\ ~isPaused
    /\ Commit(Rendered(St, [ St EXCEPT !.isPaused = TRUE ], FALSE, <<>>))

\* flashcards.tsx 440-445: the Resume button of the pause overlay
Resume ==
    /\ MainScreen(St) /\ isPaused
    /\ Commit(Rendered(St, [ St EXCEPT !.isPaused = FALSE ], FALSE, <<>>))

\* flashcards.tsx 318-324: Continue Practicing on the completion screen
Restart ==
    /\ CompleteScreen(St)
    /\ \E perm \in Perms(childWords) :
           Commit(Rendered(St, handleRestart(St, perm), FALSE, <<>>))

\* flashcards.tsx 450-461: the mic button
MicButton ==
    /\ MainScreen(St) /\ speechAvailable /\ showFeedback = "none" /\ ~isPaused
    /\ isListening \/ Len(leaked) < MaxHandles
    /\ Commit(Rendered(St, toggleListening(St, TRUE), FALSE, <<>>))

Subscribed == leaked # <<>> \/ listenerRef # <<>>

\* the recognizer emits a 'result' event
RecognizerResult ==
    \E matches \in SUBSET Ids, isFinal \in BOOLEAN :
        /\ recognizing /\ Subscribed
        /\ nVerdicts + Len(leaked) + Len(listenerRef) <= MaxVerdicts
        /\ LET s1 == deliverResult(St, leaked, matches, isFinal)
               s2 == IF listenerRef = <<>> THEN s1
                     ELSE deliverToRef(s1, listenerRef[1], matches, isFinal)
           IN  Commit(Rendered(St, s2, FALSE, <<>>))

\* an event emitted before stop() returned reaches the listeners of the stopped
\* handle: the step that follows the handler that called stop().  The listeners are
\* removed (speech.ts 145-147) when any other handler runs.
LateEvent ==
    \E kind \in { "result", "error", "end" }, isMatch \in BOOLEAN, isFinal \in BOOLEAN :
        /\ stoppedHandles # <<>>
        /\ kind # "result" => (isMatch /\ isFinal)
        /\ LET h  == stoppedHandles[1]
               matches == IF isMatch THEN { h.target } ELSE {}
               s1 == CASE kind = "result" -> handleResult(St, h, matches, isFinal)
                       [] kind = "error" -> errorListener(St, h)
                       [] OTHER -> endListener(St, h)
           IN  Commit(Rendered(St, s1, FALSE, <<>>))

\* the recognizer emits an 'error' event
RecognizerError ==
    /\ recognizing /\ Subscribed
    /\ Commit(Rendered(St, onError(St), FALSE, <<>>))

\* the recognizer emits its 'end' event
RecognizerEnd ==
    /\ recognizing
    /\ Commit(Rendered(St, [ onError(St) EXCEPT !.recognizing = FALSE ], FALSE, <<>>))

Next ==
    \/ StartSession
    \/ AnswerButton
    \/ Tick
    \/ FeedbackTimeout
    \/ SaveRead
    \/ SaveWrite
    \/ Pause
    \/ Resume
    \/ Restart
    \/ MicButton
    \/ RecognizerResult
    \/ LateEvent
    \/ RecognizerError
    \/ RecognizerEnd

Spec == Init /\ [][Next]_vars

\* ------------------------------------------------------------------ no native module
\* A device without the native module: isSpeechRecognitionSupported (speech.ts 72-74)
\* is false, so the effect of flashcards.tsx 117-124 leaves speechAvailable false.
ListenInit == Init /\ ~speechAvailable

\* toggleListening is called all the same, and its startListening takes the branch of
\* speech.ts 93-97
ListenUnavailable ==
    /\ ~speechAvailable
    /\ MainScreen(St) /\ showFeedback = "none" /\ ~isPaused
    /\ Commit(Rendered(St, toggleListening(St, FALSE), FALSE, <<>>))

ListenNext ==
    \/ StartSession
    \/ AnswerButton
    \/ Tick
    \/ FeedbackTimeout
    \/ SaveRead
    \/ SaveWrite
    \/ Pause
    \/ Resume
    \/ Restart
    \/ ListenUnavailable

ListenSpec == ListenInit /\ [][ListenNext]_vars

\* ------------------------------------------------------------------ saveWord alone
\* The words a caller passes to saveWord, and the arrays of records the storage key
\* can hold: records of different ids, in any order, not one for every id
SavedWords ==
    { [ status |-> "mastered", masteryCorrectCount |-> c, incorrectCount |-> n ] :
        c \in MaxThreshold..(MaxThreshold + 1), n \in 0..1 }

StoredArrays ==
    { all \in UNION { [ 1..n -> { WordRecord(id, w) : id \in Ids, w \in InitWordRecords } ] :
                        n \in 0..NumWords } :
        \A i, j \in 1..Len(all) : i # j => all[i].id # all[j].id }

\* no session runs (the child has no eligible word); the key holds any such array
StoreInit ==
    /\ masteryThreshold = 1 /\ demoteOnMiss = FALSE /\ speechAvailable = FALSE
    /\ words \in [ Ids -> InitWordRecords ]
    /\ Eligible(words) = {}
    /\ store \in StoredArrays
    /\ LET s == Mounted(words)
       IN  /\ saves = s.saves
           /\ childWords = s.childWords
           /\ wordProgress = s.wordProgress
           /\ queue = s.queue
           /\ masteredIds = s.masteredIds
           /\ showFeedback = s.showFeedback
           /\ isComplete = s.isComplete
           /\ timeLeft = s.timeLeft
           /\ isPaused = s.isPaused
           /\ isListening = s.isListening
           /\ listenerRef = s.listenerRef
           /\ leaked = s.leaked
           /\ stoppedHandles = s.stoppedHandles
           /\ callbacks = s.callbacks
           /\ recognizing = s.recognizing
           /\ timeouts = s.timeouts
           /\ timerEnv = s.timerEnv
           /\ toggleEnv = s.toggleEnv
           /\ startIds = s.startIds
           /\ nVerdicts = s.nVerdicts
           /\ sessionCorrects = s.sessionCorrects
           /\ missAge = s.missAge
    /\ spoken = "" /\ target = "" /\ matchResult = "pending"
    /\ continuous = NotStarted

\* part_002 209: saveWord(word) is called for a word of the context, once the save
\* before it has completed
SaveWordCall ==
    \E id \in Ids, w \in SavedWords :
        /\ saves = <<>>
        /\ Commit([ St EXCEPT !.words = [ @ EXCEPT ![id] = w ],
                              !.saves = << [ id |-> id, pc |-> "read", data |-> <<>> ] >> ])

StoreNext ==
    \/ SaveWordCall
    \/ SaveRead
    \/ SaveWrite

StoreSpec == StoreInit /\ [][StoreNext]_vars

\* ------------------------------------------------------------------ word matching
\* speech.ts 271-292
HOMOPHONES ==
    << <<"sight", "site", "cite">>,
       <<"their", "there", "they're">>,
       <<"to", "too", "two">>,
       <<"your", "you're">>,
       <<"its", "it's">>,
       <<"know", "no">>,
       <<"knew", "new">>,
       <<"knight", "night">>,
       <<"knot", "not">>,
       <<"write", "right", "rite">>,
       <<"read", "red">>,
       <<"hear", "here">>,
       <<"sea", "see">>,
       <<"sun", "son">>,
       <<"one", "won">>,
       <<"be", "bee">>,
       <<"by", "buy", "bye">>,
       <<"for", "four", "fore">>,
       <<"ate", "eight">>,
       <<"wait", "weight">> >>

\* a string as the sequence of its characters
Chars(str) == [ i \in 1..Len(str) |-> SubSeq(str, i, i) ]

\* the string of a sequence of characters
RECURSIVE Str(_)
Str(cs) == IF cs = <<>> THEN "" ELSE Head(cs) \o Str(Tail(cs))

UpperCase == Chars("ABCDEFGHIJKLMNOPQRSTUVWXYZ")
LowerCase == Chars("abcdefghijklmnopqrstuvwxyz")

\* String.prototype.toLowerCase, on a sequence of characters
toLowerCase(cs) ==
    [ i \in 1..Len(cs) |->
        IF \E k \in 1..Len(UpperCase) : UpperCase[k] = cs[i]
        THEN LowerCase[CHOOSE k \in 1..Len(UpperCase) : UpperCase[k] = cs[i]]
        ELSE cs[i] ]

Whitespace == { " ", "\t", "\n" }

\* the characters of the class [.,!?'"] of speech.ts 346-347
Punctuation == { ".", ",", "!", "?", "'", "\"" }

\* String.prototype.trim
RECURSIVE trimStart(_)
trimStart(cs) ==
    IF cs # <<>> /\ Head(cs) \in Whitespace THEN trimStart(Tail(cs)) ELSE cs

RECURSIVE trimEnd(_)
trimEnd(cs) ==
    IF cs # <<>> /\ cs[Len(cs)] \in Whitespace THEN trimEnd(SubSeq(cs, 1, Len(cs) - 1)) ELSE cs

trim(cs) == trimEnd(trimStart(cs))

\* the cleaning without the trim: the blanks at both ends are kept
clean_noTrim(cs) == toLowerCase(SelectSeq(cs, LAMBDA c : c \notin Punctuation))

\* the cleaning without the replace: punctuation is kept
clean_keepsPunctuation(cs) == toLowerCase(trim(cs))

\* the cleaning without the toLowerCase: the case of the letters is kept
clean_keepsCase(cs) == trim(SelectSeq(cs, LAMBDA c : c \notin Punctuation))

\* speech.ts 346-347: replace(/[.,!?'"]/g, '').trim().toLowerCase()
clean(cs) == toLowerCase(trim(SelectSeq(cs, LAMBDA c : c \notin Punctuation)))

\* String.prototype.split(/\s+/): cur is the token being read, inRun says that the
\* previous character was whitespace
RECURSIVE splitWhitespace(_, _, _, _)
splitWhitespace(cs, cur, inRun, tokens) ==
    IF cs = <<>> THEN Append(tokens, cur)
    ELSE IF Head(cs) \in Whitespace
         THEN IF inRun THEN splitWhitespace(Tail(cs), cur, TRUE, tokens)
              ELSE splitWhitespace(Tail(cs), <<>>, TRUE, Append(tokens, cur))
         ELSE splitWhitespace(Tail(cs), Append(cur, Head(cs)), FALSE, tokens)

\* speech.ts 294-307: the words a key of homophoneMap maps to (no key: no words)
lowerGroups == { { toLowerCase(Chars(g[i])) : i \in 1..Len(g) } : g \in Range(HOMOPHONES) }

homophoneMap(word) == UNION { g \ { word } : g \in { h \in lowerGroups : word \in h } }

\* speech.ts 309-315
areHomophones(word1, word2) ==
    LET lower1 == toLowerCase(word1)
        lower2 == toLowerCase(word2)
    IN  IF lower1 = lower2 THEN TRUE
        ELSE lower2 \in homophoneMap(lower1)

Min3(x, y, z) == Min(x, Min(y, z))

\* speech.ts 330-341: one row of the matrix, for the character bc of b; prev is the
\* row above and acc the columns filled so far (column j is element j + 1)
RECURSIVE levenshteinRow(_, _, _, _)
levenshteinRow(prev, acc, a, bc) ==
    LET j == Len(acc)
    IN  IF j > Len(a) THEN acc
        ELSE LET v == IF bc = a[j] THEN prev[j]
                      ELSE Min3(prev[j] + 1, acc[j] + 1, prev[j + 1] + 1)
             IN  levenshteinRow(prev, Append(acc, v), a, bc)

\* speech.ts 329-342: the rows below row 0 (row i is element i + 1 of matrix)
RECURSIVE levenshteinRows(_, _, _)
levenshteinRows(matrix, a, b) ==
    LET i == Len(matrix)
    IN  IF i > Len(b) THEN matrix
        ELSE levenshteinRows(Append(matrix, levenshteinRow(matrix[i], <<i>>, a, b[i])), a, b)

\* speech.ts 317-343
levenshteinDistance(a, b) ==
    levenshteinRows(<< [ j \in 1..(Len(a) + 1) |-> j - 1 ] >>, a, b)[Len(b) + 1][Len(a) + 1]

\* a tolerance of 40 percent of the length
maxAllowedDistance_fortyPercent(length) ==
    IF (length * 40) \div 100 > 1 THEN (length * 40) \div 100 ELSE 1

\* the tolerance without its minimum of one edit
maxAllowedDistance_noMinimum(length) == (length * 35) \div 100

\* speech.ts 360: Math.max(1, Math.floor(length * 0.35)); for the lengths below 180
\* the floating-point product has the floor of the exact one
maxAllowedDistance(length) ==
    IF (length * 35) \div 100 > 1 THEN (length * 35) \div 100 ELSE 1

\* the matching without the two rules on the tokens of the utterance
checkWordMatch_wholeUtterance(spokenStr, targetStr) ==
    LET cleanSpoken == clean(Chars(spokenStr))
        cleanTarget == clean(Chars(targetStr))
    IN  \/ cleanSpoken = cleanTarget
        \/ areHomophones(cleanSpoken, cleanTarget)
        \/ levenshteinDistance(cleanSpoken, cleanTarget) <= maxAllowedDistance(Len(cleanTarget))

\* speech.ts 345-364, on strings
checkWordMatch(spokenStr, targetStr) ==
    LET cleanSpoken == clean(Chars(spokenStr))
        cleanTarget == clean(Chars(targetStr))
        spokenWords == splitWhitespace(cleanSpoken, <<>>, FALSE, <<>>)
    IN  \/ cleanSpoken = cleanTarget
        \/ areHomophones(cleanSpoken, cleanTarget)
        \/ cleanTarget \in Range(spokenWords)
        \/ \E i \in 1..Len(spokenWords) : areHomophones(spokenWords[i], cleanTarget)
        \/ levenshteinDistance(cleanSpoken, cleanTarget) <= maxAllowedDistance(Len(cleanTarget))

\* the words of the homophone table
TableWords == UNION { Range(g) : g \in Range(HOMOPHONES) }

\* the characters of the enumerated strings: letters of both cases, a blank and a
\* character of the class [.,!?'"]
Alphabet == { "a", "b", "A", " ", "!" }

\* the strings over Alphabet of at most n characters
RECURSIVE Strings(_)
Strings(n) ==
    IF n = 0 THEN { "" }
    ELSE Strings(n - 1) \cup { s \o c : s \in Strings(n - 1), c \in Alphabet }

\* k times the character c
RECURSIVE Repeat(_, _)
Repeat(c, k) == IF k = 0 THEN "" ELSE Repeat(c, k - 1) \o c

\* a word of n letters, the first k of them replaced
Pad(k, n) == Repeat("z", k) \o Repeat("a", n - k)

LengthTargets == { Pad(0, n) : n \in 0..MaxTargetLen }
LengthSpoken == { Pad(k, n) : k \in 0..MaxEdits, n \in MaxEdits..MaxTargetLen }

\* transcripts and targets without a homophone
Examples == { "kat", "cat", "dog", "the cat" }

\* a word of the table inside a longer utterance
Phrases == { "the " \o w : w \in TableWords } \cup { w \o " cat" : w \in TableWords }

\* the targets and the transcripts explored
TargetInputs == TableWords \cup Strings(MaxChars) \cup Examples \cup LengthTargets
MatchInputs == TargetInputs \cup Phrases \cup LengthSpoken

sessionVars == << masteryThreshold, demoteOnMiss, speechAvailable, words, store, saves,
                  childWords, wordProgress, queue, masteredIds, showFeedback, isComplete,
                  timeLeft, isPaused, isListening, listenerRef, leaked, stoppedHandles,
                  callbacks, recognizing,
                  timeouts, timerEnv, toggleEnv, startIds, nVerdicts,
                  sessionCorrects, missAge >>

\* checkWordMatch is called for one transcript and one target, no session running
\* (the screen of a child without eligible words)
MatchInit ==
    /\ SessionInit
    /\ masteryThreshold = 1 /\ ~demoteOnMiss /\ ~speechAvailable
    /\ Eligible(words) = {}
    /\ spoken \in MatchInputs
    /\ target \in TargetInputs
    /\ matchResult = "pending"
    /\ continuous = NotStarted

\* speech.ts 111: isMatch = checkWordMatch(transcript, currentTarget)
Evaluate ==
    /\ matchResult = "pending"
    /\ matchResult' = IF checkWordMatch(spoken, target) THEN "match" ELSE "nomatch"
    /\ UNCHANGED << sessionVars, spoken, target, continuous >>

MatchNext == Evaluate

MatchSpec == MatchInit /\ [][MatchNext]_vars

\* ------------------------------------------------------------------ respelled inputs
\* checkWordMatch on short strings with capitals, blanks and punctuation and on a
\* few words and utterances of each rule
MaxVariantChars == 2

RespelledInputs ==
    Strings(MaxVariantChars) \cup Examples
    \cup { "their", "There", " they're!", "the Their", "Kat.", "a  b", "sight", "Sihgt " }

RespellInit ==
    /\ SessionInit
    /\ masteryThreshold = 1 /\ ~demoteOnMiss /\ ~speechAvailable
    /\ Eligible(words) = {}
    /\ spoken \in RespelledInputs
    /\ target \in RespelledInputs
    /\ matchResult = "pending"
    /\ continuous = NotStarted

RespellSpec == RespellInit /\ [][MatchNext]_vars

\* ------------------------------------------------------------------ continuous listening
\* the target words, the lists of them and the transcripts explored
TargetVocabulary == { "cat", "dog" }
TargetLists == UNION { [ 1..n -> TargetVocabulary ] : n \in 0..MaxTargets }
Transcripts == { "", "cat", "Dog", "cat dog", "kat  dog", "bird" }

\* what the caller's onWordMatch does with the handle: nothing, stop() or
\* updateTargetWords(words)
Reactions == { "none", "stop", "update" }

\* speech.ts 258-261: updateTargetWords of the handle
updateTargetWords(c, newWords) ==
    [ c EXCEPT !.currentTargets = newWords, !.matchedIndices = {},
               !.wordMatches = [ i \in 1..MaxTargets |-> 0 ] ]

\* speech.ts 249-257: stop() of the handle
continuousStop(c) == [ c EXCEPT !.stopped = TRUE, !.recognizing = FALSE ]

\* the caller's onWordMatch is invoked for index (speech.ts 215) and reacts
onWordMatch(c, index, reaction, newWords) ==
    LET called == [ c EXCEPT !.wordMatches[index] = @ + 1,
                             !.afterStop = @ + (IF c.stopped THEN 1 ELSE 0) ]
    IN  CASE reaction = "stop" -> continuousStop(called)
          [] reaction = "update" -> updateTargetWords(called, newWords)
          [] OTHER -> called

\* speech.ts 212-217: the loop over allMatches
RECURSIVE deliverMatches(_, _, _, _)
deliverMatches(c, matches, reaction, newWords) ==
    IF matches = <<>> THEN c
    ELSE IF Head(matches) \in c.matchedIndices
         THEN deliverMatches(c, Tail(matches), reaction, newWords)
         ELSE deliverMatches(
                  onWordMatch([ c EXCEPT !.matchedIndices = @ \cup { Head(matches) } ],
                              Head(matches), reaction, newWords),
                  Tail(matches), reaction, newWords)

\* speech.ts 192-204: the indices of the targets not matched yet that a token of
\* the transcript matches, in the order of currentTargets
allMatches(c, transcript) ==
    LET spokenTokens == splitWhitespace(toLowerCase(Chars(transcript)), <<>>, FALSE, <<>>)
        hit(index) ==
            /\ index \notin c.matchedIndices
            /\ \E k \in 1..Len(spokenTokens) :
                   checkWordMatch(Str(spokenTokens[k]), c.currentTargets[index])
    IN  SelectSeq([ i \in 1..Len(c.currentTargets) |-> i ], hit)

\* speech.ts 179-218: handleResult of the continuous listener, given a result with
\* a transcript; marked are the indices the caller's onAllMatches (206-210) passes
\* to markWordMatched
continuousHandleResult(c, transcript, marked, reaction, newWords) ==
    IF c.stopped THEN c
    ELSE LET matches == allMatches(c, transcript)
             afterAll == IF matches # <<>> /\ c.onAllMatches
                         THEN [ c EXCEPT !.matchedIndices = @ \cup marked ]
                         ELSE c
         IN  deliverMatches(afterAll, matches, reaction, newWords)

\* speech.ts 232-246: the 'end' listener; throws says that start() throws
continuousEndListener(c, throws) ==
    IF c.stopped THEN c
    ELSE IF throws THEN [ c EXCEPT !.onEnds = @ + 1 ]
         ELSE [ c EXCEPT !.recognizing = TRUE, !.starts = @ + 1 ]

\* speech.ts 229-231: the 'error' listener
continuousErrorListener(c) ==
    IF c.stopped THEN c ELSE [ c EXCEPT !.onErrors = @ + 1 ]

\* speech.ts 161-268: startContinuousListening; present says that the native module
\* was loaded, throws that the first start() throws
startContinuousListening(c, present, targetWords, withOnAllMatches, throws) ==
    IF ~present \/ throws
    THEN [ c EXCEPT !.handle = "noop", !.onErrors = @ + 1, !.onEnds = @ + 1 ]
    ELSE [ c EXCEPT !.handle = "live", !.currentTargets = targetWords,
                    !.matchedIndices = {}, !.stopped = FALSE,
                    !.onAllMatches = withOnAllMatches,
                    !.recognizing = TRUE, !.starts = @ + 1 ]

\* no session is running (the screen of a child without eligible words)
ContinuousInit ==
    /\ SessionInit
    /\ masteryThreshold = 1 /\ ~demoteOnMiss
    /\ Eligible(words) = {}
    /\ spoken = "" /\ target = "" /\ matchResult = "pending"
    /\ continuous = NotStarted

ContinuousUnchanged == UNCHANGED << sessionVars, spoken, target, matchResult >>

StartContinuous ==
    /\ continuous.handle = "none"
    /\ \E targetWords \in TargetLists, withOnAllMatches \in BOOLEAN, throws \in BOOLEAN :
           continuous' = startContinuousListening(continuous, speechAvailable, targetWords,
                                                  withOnAllMatches, throws)
    /\ ContinuousUnchanged

\* the recognizer emits a result; it reaches handleResult even if stop() removed
\* the subscription after the event was emitted
ContinuousResult ==
    /\ continuous.handle = "live"
    /\ \E transcript \in Transcripts, reaction \in Reactions, marked \in SUBSET (1..MaxTargets) :
        \E newWords \in (IF reaction = "update" THEN TargetLists ELSE { <<>> }) :
           continuous' = continuousHandleResult(continuous, transcript, marked, reaction, newWords)
    /\ ContinuousUnchanged

\* the recognizer ends and emits 'end'
ContinuousEnd ==
    /\ continuous.handle = "live" /\ continuous.ends < MaxEvents
    /\ \E throws \in BOOLEAN :
           continuous' = continuousEndListener(
                             [ continuous EXCEPT !.ends = @ + 1, !.recognizing = FALSE ], throws)
    /\ ContinuousUnchanged

\* the recognizer emits 'error'
ContinuousError ==
    /\ continuous.handle = "live" /\ continuous.onErrors < MaxEvents
    /\ continuous' = continuousErrorListener(continuous)
    /\ ContinuousUnchanged

\* the caller calls stop() of the handle
ContinuousStop ==
    /\ continuous.handle = "live"
    /\ continuous' = continuousStop(continuous)
    /\ ContinuousUnchanged

\* the caller calls updateTargetWords of the handle
ContinuousUpdate ==
    /\ continuous.handle = "live"
    /\ \E newWords \in TargetLists : continuous' = updateTargetWords(continuous, newWords)
    /\ ContinuousUnchanged

ContinuousNext ==
    \/ StartContinuous
    \/ ContinuousResult
    \/ ContinuousEnd
    \/ ContinuousError
    \/ ContinuousStop
    \/ ContinuousUpdate

ContinuousSpec == ContinuousInit /\ [][ContinuousNext]_vars

\* ------------------------------------------------------------------ claims
\* the word of the verdict whose feedback is showing (the newest pending timeout)
AnsweredId == timeouts[Len(timeouts)].id

\* a step that accepts exactly one verdict
AcceptsVerdict == nVerdicts' = nVerdicts + 1
AnsweredId1 == timeouts'[Len(timeouts')].id

\* C1: once every word that was eligible at session start has received
\* masteryThreshold accepted correct verdicts and the feedback delays have run out,
\* the session is Complete with all of these words mastered (N of N).
C1_AllCorrectCompletes ==
    ( /\ startIds # {}
      /\ \A id \in startIds : sessionCorrects[id] >= masteryThreshold
      /\ timeouts = <<>> )
    => ( isComplete /\ Len(masteredIds) = Cardinality(startIds) )

\* C2: the session is Complete only if mastered-this-session holds every word that
\* was eligible at session start, and a word is in mastered-this-session only if its
\* session-local correct count has reached the threshold.
C2_CompleteOnlyIfAllMastered ==
    /\ isComplete => ( /\ startIds \subseteq Range(masteredIds)
                       /\ Len(masteredIds) = Cardinality(startIds) )
    /\ \A id \in Range(masteredIds) :
           /\ id \in DOMAIN wordProgress
           /\ wordProgress[id].sessionCorrectCount >= masteryThreshold

\* C3: after an accepted incorrect verdict on a word, the word is the current word
\* again within at most 4 subsequent presentations (unless the session ends first).
C3_MissReappears == \A id \in Ids : missAge[id] < MissCap

\* C4: within one session a word's session-local correct count never decreases: a
\* step other than Restart keeps every word's progress entry and does not lower its
\* sessionCorrectCount.
C4_SessionCountMonotone ==
    [][ (~isComplete \/ isComplete') =>
          \A id \in DOMAIN wordProgress :
              /\ id \in DOMAIN wordProgress'
              /\ wordProgress'[id].sessionCorrectCount >= wordProgress[id].sessionCorrectCount
      ]_vars

\* C5: while feedback is showing no verdict takes effect: no step accepts a verdict
\* or changes a persisted counter or status.
C5_NoVerdictInFeedback ==
    [][ showFeedback # "none" => (nVerdicts' = nVerdicts /\ words' = words) ]_vars

\* C6: while the session is Paused or Complete no verdict, tick or speech callback
\* takes effect: no step accepts a verdict or changes a persisted counter or status.
C6_NoVerdictOutsidePresenting ==
    [][ (isPaused \/ isComplete) => (nVerdicts' = nVerdicts /\ words' = words) ]_vars

\* C7: in every reachable state, Complete included, no id of mastered-this-session
\* is in the queue.
C7_MasteredNotQueued == \A id \in Range(masteredIds) : id \notin Range(queue)

\* C8: an accepted incorrect verdict on a word whose status is mastered makes it
\* learning when demoteOnMiss is set and leaves it mastered otherwise; an incorrect
\* verdict never changes a status of new or learning.
C8_DemotionOnMiss ==
    [][ (AcceptsVerdict /\ showFeedback' = "incorrect") =>
          LET id == AnsweredId1
          IN  words'[id].status =
                IF words[id].status = "mastered" /\ demoteOnMiss
                THEN "learning" ELSE words[id].status
      ]_vars

\* C8 witness: a miss has just demoted a word that a correct verdict of this session
\* had made mastered.
C8_Witness ==
    /\ showFeedback = "incorrect" /\ timeouts # <<>> /\ demoteOnMiss
    /\ words[AnsweredId].status = "learning"
    /\ words[AnsweredId].masteryCorrectCount >= masteryThreshold
    /\ sessionCorrects[AnsweredId] >= 1

C10_CountersStepByOne ==
    [][ AcceptsVerdict =>
          LET id == AnsweredId1
          IN  IF showFeedback' = "correct"
              THEN /\ words'[id].masteryCorrectCount = words[id].masteryCorrectCount + 1
                   /\ words'[id].incorrectCount = words[id].incorrectCount
              ELSE /\ words'[id].incorrectCount = words[id].incorrectCount + 1
                   /\ words'[id].masteryCorrectCount = words[id].masteryCorrectCount
      ]_vars

\* C11: in every step a word's status stays as it is or moves forward along
\* new -> learning -> mastered; the one backward step is mastered -> learning, taken
\* only by an accepted incorrect verdict while demoteOnMiss is set; no step makes a
\* status new.
C11_StatusMonotone ==
    [][ \A id \in Ids :
          \/ Rank(words'[id].status) >= Rank(words[id].status)
          \/ /\ words[id].status = "mastered" /\ words'[id].status = "learning"
             /\ demoteOnMiss /\ AcceptsVerdict /\ showFeedback' = "incorrect"
      ]_vars

\* C11 witness: a word that started the session as new has moved through learning
\* to mastered by two correct verdicts.
C11_Witness ==
    \E id \in Ids :
        /\ masteryThreshold = 2 /\ sessionCorrects[id] = 2
        /\ words[id].status = "mastered" /\ words[id].masteryCorrectCount = 2

\* C12: a verdict is computed from the queue as it stands when the verdict is
\* accepted, and when its feedback delay runs out with the word below the session
\* threshold, the new queue is that queue without its head, with the word inserted at
\* index min(length of the rest, 3) and the other ids in their old order; the word is
\* the sole entry if the rest is empty and is not at position 0 otherwise.
C12_Reinsertion ==
    [][ /\ AcceptsVerdict =>
              /\ timeouts'[Len(timeouts')].queue = queue
              /\ Head(queue) = AnsweredId1
        /\ ( /\ Len(timeouts) = 1 /\ timeouts' = <<>>
             /\ timeouts[1].sessionCorrectCount < masteryThreshold )
           => LET w == timeouts[1].id
                  rest == Tail(timeouts[1].queue)
                  k == Min(Len(rest), 3)
              IN  /\ Len(queue') = Len(rest) + 1
                  /\ queue'[k + 1] = w
                  /\ RemoveAt(queue', k + 1) = rest
                  /\ rest # <<>> => queue'[1] # w
      ]_vars

\* a step that leaves the Complete state: Restart
RestartStep == isComplete /\ ~isComplete'

\* C13: Restart stores a queue that is a permutation of exactly the ids that were
\* eligible when the completed session started, empties mastered-this-session and
\* leaves the session presenting the head of that queue.
C13_RestartQueue ==
    [][ RestartStep =>
          /\ Len(queue') = Cardinality(startIds)
          /\ Range(queue') = startIds
          /\ masteredIds' = <<>>
          /\ showFeedback' = "none"
          /\ queue' # <<>> /\ Head(queue') \in DOMAIN wordProgress'
      ]_vars

\* C14: immediately after Restart every word's session-local correct count and
\* attempt count are zero.
C14_RestartZeroesProgress ==
    [][ RestartStep =>
          \A id \in DOMAIN wordProgress' :
              /\ wordProgress'[id].sessionCorrectCount = 0
              /\ wordProgress'[id].totalAttempts = 0
      ]_vars

\* C15: Restart changes no persisted Word record: status, cumulative correct count
\* and cumulative incorrect count of every word, in memory and in the store, are
\* after Restart what they were in the Complete state.
C15_RestartKeepsWords ==
    [][ RestartStep => (words' = words /\ store' = store) ]_vars

\* C15 witness: Restart has acted (the session's verdict tally is cleared and the
\* session is running again) while a word still carries the mastered status that a
\* correct verdict of the finished session gave it.
C15_Witness ==
    /\ ~isComplete /\ masteredIds = <<>> /\ nVerdicts > 0
    /\ \A id \in Ids : sessionCorrects[id] = 0
    /\ \E id \in childWords : words[id].status = "mastered"

\* C16: when no word is eligible (status new or learning) as the screen opens, the
\* session never becomes active: the queue stays empty, no countdown runs, no
\* verdict is accepted or pending, and the empty-session screen is shown.
C16_EmptySessionNeverStarts ==
    ( nVerdicts = 0 /\ \A id \in Ids : words[id].status = "mastered" )
    => /\ queue = <<>> /\ DOMAIN wordProgress = {}
       /\ ~TimerRuns(St)
       /\ timeouts = <<>> /\ saves = <<>> /\ showFeedback = "none"
       /\ ~isComplete /\ ~isListening
       /\ EmptyScreen(St) /\ ~MainScreen(St)

\* C16 witness: the screen was opened for a child whose words are all mastered.
C16_Witness ==
    /\ startIds = {} /\ childWords = {} /\ queue = <<>>
    /\ \A id \in Ids : words[id].status = "mastered"

\* the session as the screen's first effects leave it
SessionStarted ==
    /\ Len(queue) = Cardinality(Eligible(words))
    /\ Range(queue) = Eligible(words)
    /\ masteredIds = <<>>
    /\ DOMAIN wordProgress = Eligible(words)
    /\ \A id \in DOMAIN wordProgress :
           wordProgress[id].sessionCorrectCount = 0 /\ wordProgress[id].totalAttempts = 0
    /\ timeLeft = timerSeconds
    /\ showFeedback = "none" /\ ~isComplete /\ ~isPaused

\* the step in which the session starts: the first progress entries are built
StartStep == DOMAIN wordProgress = {} /\ DOMAIN wordProgress' # {}

\* C19: immediately after session start with a non-empty eligible list the queue
\* is a permutation of all eligible ids, mastered-this-session is empty, every word
\* has session-local correct count 0 and attempt count 0, and the time remaining is
\* the configured timer duration.
C19_SessionStart ==
    [][ (childWords # {} /\ StartStep) => SessionStarted' ]_vars

\* C19 witness: a session has just started with every word eligible, both new and
\* learning words among them.
C19_Witness ==
    /\ SessionStarted /\ nVerdicts = 0 /\ Eligible(words) = Ids
    /\ \E id \in Ids : words[id].status = "learning"
    /\ \E id \in Ids : words[id].status = "new"

\* a step in which the countdown goes down: one firing of the interval
TickStep == timeLeft' < timeLeft

\* the ticks: they fire only while a word is presented and the session is not
\* paused; before the countdown reaches zero a tick takes exactly one unit and
\* produces no verdict; the tick that reaches zero is accepted as exactly one
\* incorrect verdict for the current word
TicksAndExpiry ==
    TickStep =>
        /\ TimerRuns(St)
        /\ IF timeLeft > 1
           THEN /\ timeLeft' = timeLeft - 1
                /\ nVerdicts' = nVerdicts /\ words' = words
                /\ showFeedback' = "none" /\ timeouts' = timeouts
           ELSE /\ nVerdicts' = nVerdicts + 1
                /\ showFeedback' = "incorrect"
                /\ AnsweredId1 = currentWord(St)
                /\ Len(timeouts') = Len(timeouts) + 1

\* while one word stays presented without a verdict, the countdown is not set back
CountdownNotRestarted ==
    ( /\ TimerRuns(St) /\ TimerRuns(St)'
      /\ currentWord(St)' = currentWord(St)
      /\ nVerdicts' = nVerdicts /\ timeouts' = timeouts )
    => timeLeft' <= timeLeft

\* C17: while a word is presented and the session is not paused, timerSeconds ticks
\* without a verdict end in exactly one incorrect verdict for the current word, and
\* before the countdown reaches zero ticks alone never produce a verdict.
C17_CountdownExpiry == [][ TicksAndExpiry /\ CountdownNotRestarted ]_vars

\* C18: while the session is paused, and in the step that resumes it, the remaining
\* time and the queue (hence the current word) stay as they were when pause was
\* pressed, also when it was pressed during a feedback delay; no word is presented.
C18_PauseFreezes ==
    [][ isPaused => (timeLeft' = timeLeft /\ queue' = queue) ]_vars

\* two words of one group of the homophone table
SameGroup(a, b) ==
    \E g \in Range(HOMOPHONES) : a \in Range(g) /\ b \in Range(g)

\* C20: for every pair (a, b) of words of one homophone group, the entries written
\* with an apostrophe included, the match of a against b is true, in both orders.
C20_HomophonesMatch ==
    ( matchResult # "pending" /\ SameGroup(spoken, target) ) => matchResult = "match"

\* the normalized form of a string: the characters . , ! ? ' " removed, then the
\* blanks at both ends, then every letter in lower case
Lower(c) ==
    IF \E k \in 1..Len(UpperCase) : UpperCase[k] = c
    THEN LowerCase[CHOOSE k \in 1..Len(UpperCase) : UpperCase[k] = c]
    ELSE c

Normalized(str) ==
    LET kept  == SelectSeq(Chars(str), LAMBDA c : c \notin { ".", ",", "!", "?", "'", "\"" })
        inked == { i \in 1..Len(kept) : kept[i] \notin Whitespace }
    IN  IF inked = {} THEN <<>>
        ELSE LET first == CHOOSE i \in inked : \A j \in inked : i <= j
                 last  == CHOOSE i \in inked : \A j \in inked : j <= i
             IN  [ i \in 1..(last - first + 1) |-> Lower(kept[first + i - 1]) ]

Evaluated == matchResult # "pending"

\* C21: evaluate(s, t) is true whenever s and t have the same normalized form; in
\* particular evaluate(s, s) is true for every string s.
C21_SameNormalizedFormMatches ==
    (Evaluated /\ Normalized(spoken) = Normalized(target)) => matchResult = "match"

\* two different strings of one non-empty normalized form were evaluated
C21_Witness ==
    /\ matchResult = "match"
    /\ spoken # target
    /\ Normalized(spoken) = Normalized(target)
    /\ Len(Normalized(spoken)) = 1
    /\ Len(spoken) = MaxChars

\* the whitespace-separated tokens of a normalized string: its maximal runs of
\* characters that are not whitespace
Tokens(ns) ==
    { SubSeq(ns, i, j) : <<i, j>> \in
        { p \in (1..Len(ns)) \X (1..Len(ns)) :
            /\ p[1] <= p[2]
            /\ \A k \in p[1]..p[2] : ns[k] \notin Whitespace
            /\ p[1] = 1 \/ ns[p[1] - 1] \in Whitespace
            /\ p[2] = Len(ns) \/ ns[p[2] + 1] \in Whitespace } }

\* two strings are entries of one group of the homophone table
TableHomophones(x, y) ==
    \E g \in Range(HOMOPHONES) : \E i, j \in 1..Len(g) : Chars(g[i]) = x /\ Chars(g[j]) = y

\* the exact, homophone, token-equality and per-token-homophone rules do not apply
NoRuleApplies ==
    LET ns == Normalized(spoken)
        nt == Normalized(target)
    IN  /\ ns # nt
        /\ ~TableHomophones(ns, nt)
        /\ \A tok \in Tokens(ns) : tok # nt /\ ~TableHomophones(tok, nt)

\* the least number of insertions, deletions and substitutions that turn a into b
RECURSIVE EditDistance(_, _)
EditDistance(a, b) ==
    IF a = <<>> THEN Len(b)
    ELSE IF b = <<>> THEN Len(a)
    ELSE Min3(EditDistance(Tail(a), b) + 1,
              EditDistance(a, Tail(b)) + 1,
              EditDistance(Tail(a), Tail(b)) + (IF Head(a) = Head(b) THEN 0 ELSE 1))

\* max(1, floor(0.35 * n))
Allowed(n) == IF (35 * n) \div 100 >= 1 THEN (35 * n) \div 100 ELSE 1

\* C22: when no exact, homophone, token-equality or per-token-homophone rule applies,
\* evaluate(spoken, target) is true if and only if the Levenshtein distance between
\* the normalized strings is at most max(1, floor(0.35 * length of the normalized
\* target)); evaluate("kat", "cat") is true, evaluate("", "cat") and
\* evaluate("dog", "cat") are false.
C22_FuzzyRule ==
    Evaluated =>
        LET ns == Normalized(spoken)
            nt == Normalized(target)
            d  == levenshteinDistance(ns, nt)
        IN  /\ NoRuleApplies =>
                /\ matchResult = "match" <=> d <= Allowed(Len(nt))
                /\ (Len(ns) <= MaxChars /\ Len(nt) <= MaxChars) => d = EditDistance(ns, nt)
            /\ (spoken = "kat" /\ target = "cat") => matchResult = "match"
            /\ (spoken = "" /\ target = "cat") => matchResult = "nomatch"
            /\ (spoken = "dog" /\ target = "cat") => matchResult = "nomatch"

\* two edits in a target of six letters were accepted by the fuzzy rule
C22_Witness ==
    /\ matchResult = "match"
    /\ NoRuleApplies
    /\ spoken = Pad(2, 6)
    /\ target = Pad(0, 6)

\* a token of the normalized transcript is the normalized target, or an entry of the
\* same group of the homophone table
TokenMatches(tok, nt) == tok = nt \/ TableHomophones(tok, nt)

\* C23: if any whitespace-separated token of the normalized spoken string equals the
\* normalized target, or is a homophone of it, evaluate returns true, whatever the
\* number of other tokens and whatever the edit distance of the whole utterance.
C23_TokenRule ==
    (Evaluated /\ \E tok \in Tokens(Normalized(spoken)) : TokenMatches(tok, Normalized(target)))
        => matchResult = "match"

\* an utterance of two tokens matched by a homophone of the target among its tokens,
\* the whole utterance being farther from the target than the tolerance
C23_Witness ==
    /\ matchResult = "match"
    /\ Cardinality(Tokens(Normalized(spoken))) = 2
    /\ \E tok \in Tokens(Normalized(spoken)) :
          tok # Normalized(target) /\ TableHomophones(tok, Normalized(target))
    /\ Normalized(target) \notin Tokens(Normalized(spoken))
    /\ levenshteinDistance(Normalized(spoken), Normalized(target))
          > Allowed(Len(Normalized(target)))

\* the transcript is the target with k of its letters replaced
Replaced(k) ==
    /\ target \in LengthTargets
    /\ k <= Len(target)
    /\ spoken = Pad(k, Len(target))

\* C24: the allowed edit distance max(1, floor(0.35 * len(target))) is at least 1 for
\* every target length, is non-decreasing in the target length, and equals 1 for the
\* lengths 0..5, 2 for the lengths 6..8 and 3 for the lengths 9..11: a target of n
\* letters with k of them replaced is accepted exactly when k is within that distance.
C24_Tolerance ==
    Evaluated =>
        LET n == Len(clean(Chars(target)))
        IN  /\ maxAllowedDistance(n) >= 1
            /\ \A m \in 0..n : maxAllowedDistance(m) <= maxAllowedDistance(n)
            /\ n \in 0..5 => maxAllowedDistance(n) = 1
            /\ n \in 6..8 => maxAllowedDistance(n) = 2
            /\ n \in 9..11 => maxAllowedDistance(n) = 3
            /\ \A k \in 1..MaxEdits :
                  Replaced(k) => (matchResult = "match" <=> k <= Allowed(n))

\* three replaced letters were accepted in a target of eleven letters
C24_Witness ==
    /\ Len(target) = 11
    /\ Replaced(3)
    /\ matchResult = "match"

\* C25: evaluate is total: it returns a boolean for every pair of strings, including
\* when either or both normalize to the empty string; for a target that normalizes to
\* the empty string the result is true exactly when the normalized spoken string has
\* at most one character.
C25_TotalAndEmptyTarget ==
    Evaluated =>
        /\ matchResult \in { "match", "nomatch" }
        /\ Normalized(target) = <<>> =>
              (matchResult = "match" <=> Len(Normalized(spoken)) <= 1)

\* a transcript of two characters was refused for a target that is not empty but
\* normalizes to the empty string
C25_Witness ==
    /\ matchResult = "nomatch"
    /\ target # ""
    /\ Normalized(target) = <<>>
    /\ Len(Normalized(spoken)) = 2

\* C26: after stop() has been called on a handle, no onMatch, onNoMatch, onError or
\* onEnd callback is invoked for a recognizer result, error or end event delivered
\* afterwards: the event changes nothing of the session, the listener state included.
C26_NoCallbackAfterStop ==
    [][ LateEvent =>
          UNCHANGED << words, store, saves, childWords, wordProgress, queue, masteredIds,
                       showFeedback, isComplete, timeLeft, isPaused, isListening,
                       listenerRef, leaked, timeouts, nVerdicts, sessionCorrects >> ]_vars

\* stop() was called on the handle of a running recognizer while its target is
\* presented: a late match would find a word to answer
C26_Witness ==
    /\ stoppedHandles # <<>>
    /\ recognizing
    /\ ~isListening
    /\ showFeedback = "none" /\ ~isComplete /\ ~isPaused
    /\ currentWord(St) = stoppedHandles[1].target

\* what holds of the listener in every state of a device without the module
UnavailableListener ==
    /\ callbacks \in { <<>>, << "error", "end" >> }
    /\ \A i \in 1..Len(listenerRef) : listenerRef[i].noop
    /\ leaked = <<>> /\ stoppedHandles = <<>>
    /\ ~isListening /\ ~recognizing
    /\ (MainScreen(St) /\ showFeedback = "none") =>
          \A isCorrect \in BOOLEAN :
              handleAnswer(St, Snap(St), isCorrect).nVerdicts = nVerdicts + 1

\* C27: when speech recognition is unavailable, startListening reports the error
\* once, then the end once, never a match, and returns a handle whose stop does
\* nothing; the call accepts no verdict and changes nothing of the session, whose
\* presented word still accepts the manual verdicts.
C27_UnavailableListening ==
    /\ []UnavailableListener
    /\ [][ callbacks' # callbacks =>
             /\ callbacks' = << "error", "end" >>
             /\ UNCHANGED << words, store, saves, childWords, wordProgress, queue,
                             masteredIds, showFeedback, isComplete, timeLeft, isPaused,
                             timeouts, nVerdicts, sessionCorrects >> ]_vars

\* after a call of startListening without the module, the session was driven to
\* Complete by manual verdicts
C27_Witness ==
    /\ callbacks = << "error", "end" >>
    /\ CompleteScreen(St)
    /\ Len(masteredIds) = Cardinality(startIds)
    /\ \A id \in startIds : sessionCorrects[id] >= masteryThreshold

\* a step ends in a new presentation: the speak effect (flashcards.tsx 111-115) runs
\* for the word of the new state
NewPresentation ==
    /\ SpeakDeps(St) # SpeakDeps(St)'
    /\ currentWord(St)' # 0 /\ showFeedback' = "none" /\ ~isComplete'

\* C28: the countdown is reset to the configured duration for every new presentation,
\* and in every reachable state 0 <= time remaining <= configured duration.
C28_CountdownBounds ==
    /\ [](timeLeft \in 0..timerSeconds)
    /\ [][ NewPresentation => timeLeft' = timerSeconds ]_vars

\* a word is presented again after its countdown ran out
C28_Witness ==
    /\ nVerdicts >= 1
    /\ \E id \in Ids : missAge[id] = 1
    /\ TimerRuns(St)
    /\ timeLeft = timerSeconds

\* the places of the records of one id in an array of the store
Places(all, id) == { k \in 1..Len(all) : all[k].id = id }

\* a saveWord completes: its setItem has written the array
SaveCompletes == saves # <<>> /\ saves' = <<>> /\ saves[1].pc = "write"

WriteBackStep == Len(saves') < Len(saves)

\* C30: session-local progress is reset only by session start or Restart: an accepted
\* verdict changes the session-local counters of the answered word only, and the
\* write-back of the updated word that it triggers changes no session-local counter
\* and leaves the queue as it is.
C30_WriteBackKeepsSession ==
    [][ /\ AcceptsVerdict =>
              /\ queue' = queue
              /\ DOMAIN wordProgress' = DOMAIN wordProgress
              /\ \A id \in DOMAIN wordProgress \ { AnsweredId1 } :
                    wordProgress'[id] = wordProgress[id]
        /\ WriteBackStep => (wordProgress' = wordProgress /\ queue' = queue)
      ]_vars

\* the record an array of the store holds for an id (one at most)
StoredRecord(all, id) == { all[k] : k \in Places(all, id) }

\* C31: if two saveWord calls for words of different ids overlap, their reads and
\* writes of the whole array interleaved in any order, no update is lost: the write
\* that completes one save leaves the stored record of every other id as it is.
C31_NoLostUpdate ==
    [][ \A i \in 1..Len(saves) :
          (saves[i].pc = "write" /\ saves' = RemoveAt(saves, i) /\ store' = saves[i].data)
              => \A id \in Ids \ { saves[i].id } :
                    StoredRecord(store', id) = StoredRecord(store, id) ]_vars

\* the session is Active (Presenting, Feedback or Paused): started and not Complete
Active == DOMAIN wordProgress # {} /\ ~isComplete

\* C32: while the session is Active the queue has no duplicates, and the queue ids
\* together with the mastered-this-session ids are exactly the eligible ids, no id
\* being in both.
C32_QueuePartition ==
    Active =>
        /\ \A i \in 1..Len(queue), j \in 1..Len(queue) : queue[i] = queue[j] => i = j
        /\ Range(queue) \cap Range(masteredIds) = {}
        /\ Range(queue) \cup Range(masteredIds) = startIds

\* C33: after a session has started and until it is Complete the queue is never
\* empty, so a current word is always defined (there is always a card to present).
C33_AlwaysACurrentWord ==
    Active => ( queue # <<>> /\ currentWord(St) # 0 )

C35_MasteredIdsAreMastered ==
    \A id \in Range(masteredIds) :
        /\ words[id].status = "mastered"
        /\ words[id].masteryCorrectCount >= masteryThreshold

\* C36: a word demoted from mastered to learning by a miss keeps its cumulative
\* correct count, which is at least the threshold; and a correct verdict on a
\* learning word whose cumulative count is at least the threshold sets its status
\* back to mastered, whatever its session-local count is.
C36_DemotedWordRemasters ==
    [][ AcceptsVerdict =>
          LET before == words[AnsweredId1]
              after == words'[AnsweredId1]
          IN  /\ ( showFeedback' = "incorrect" /\ demoteOnMiss /\ before.status = "mastered" )
                     => /\ after.status = "learning"
                        /\ after.masteryCorrectCount = before.masteryCorrectCount
                        /\ after.masteryCorrectCount >= masteryThreshold
              /\ ( /\ showFeedback' = "correct" /\ before.status = "learning"
                   /\ before.masteryCorrectCount >= masteryThreshold )
                     => after.status = "mastered" ]_vars

\* a miss has just demoted a word that reached the threshold in this session: its
\* status is learning and its cumulative count is still at the threshold
C36_Witness ==
    /\ timeouts # <<>> /\ showFeedback = "incorrect" /\ demoteOnMiss
    /\ masteryThreshold = 2
    /\ words[AnsweredId].status = "learning"
    /\ words[AnsweredId].masteryCorrectCount = 2

\* a letter in the other case (any other character is left alone)
OtherCase(c) ==
    IF \E k \in 1..Len(UpperCase) : UpperCase[k] = c
    THEN LowerCase[CHOOSE k \in 1..Len(UpperCase) : UpperCase[k] = c]
    ELSE IF \E k \in 1..Len(LowerCase) : LowerCase[k] = c
         THEN UpperCase[CHOOSE k \in 1..Len(LowerCase) : LowerCase[k] = c]
         ELSE c

\* the strings obtained from str by changing the case of one letter, by adding or
\* removing a blank at one end, or by adding or removing one of . , ! ? ' "
Variants(str) ==
    LET n == Len(str)
    IN  { SubSeq(str, 1, k - 1) \o OtherCase(SubSeq(str, k, k)) \o SubSeq(str, k + 1, n) : k \in 1..n }
        \cup { " " \o str, str \o " " }
        \cup { SubSeq(str, 2, n) : k \in { j \in {1} : n > 0 /\ SubSeq(str, 1, 1) \in Whitespace } }
        \cup { SubSeq(str, 1, n - 1) : k \in { j \in {n} : n > 0 /\ SubSeq(str, n, n) \in Whitespace } }
        \cup { SubSeq(str, 1, k) \o c \o SubSeq(str, k + 1, n) : k \in 0..n, c \in Punctuation }
        \cup { SubSeq(str, 1, k - 1) \o SubSeq(str, k + 1, n) :
                 k \in { j \in 1..n : SubSeq(str, j, j) \in Punctuation } }

\* C37: evaluate depends only on the normalized forms of its arguments:
\* normalization is idempotent, evaluate gives the same result on the normalized
\* forms, and changing the case of a letter, the surrounding whitespace or adding or
\* removing any of the characters . , ! ? ' " in the spoken or the target string
\* never changes the result.
C37_DependsOnNormalizedForms ==
    Evaluated =>
        LET result == (matchResult = "match")
        IN  /\ clean(clean(Chars(spoken))) = clean(Chars(spoken))
            /\ clean(clean(Chars(target))) = clean(Chars(target))
            /\ checkWordMatch(Str(clean(Chars(spoken))), Str(clean(Chars(target)))) = result
            /\ \A v \in Variants(spoken) : checkWordMatch(v, target) = result
            /\ \A v \in Variants(target) : checkWordMatch(spoken, v) = result

\* a transcript with a blank and a punctuation mark was evaluated against a target
\* with a capital letter and of another normalized form, and matched
C37_Witness ==
    /\ matchResult = "match"
    /\ \E k \in 1..Len(spoken) : Chars(spoken)[k] \in Whitespace
    /\ \E k \in 1..Len(spoken) : Chars(spoken)[k] \in Punctuation
    /\ \E k \in 1..Len(target) : Chars(target)[k] \in Range(UpperCase)
    /\ Normalized(spoken) # Normalized(target)

\* the step delivers an 'end' event to the listener
EndDelivered == continuous'.ends = continuous.ends + 1

\* C38: in continuous listening, between two calls of updateTargetWords onWordMatch
\* is invoked at most once per target index, and never after stop(); an unstopped
\* listener restarts recognition on every end event and signals onEnd only if that
\* restart fails.
C38_ContinuousListening ==
    /\ [] ( \A i \in 1..MaxTargets : continuous.wordMatches[i] <= 1 )
    /\ [] ( continuous.afterStop = 0 )
    /\ [][ ( EndDelivered /\ ~continuous.stopped )
               => \/ continuous'.starts = continuous.starts + 1 /\ continuous'.recognizing
                                                                 /\ continuous'.onEnds = continuous.onEnds
                  \/ continuous'.starts = continuous.starts /\ ~continuous'.recognizing
                                                             /\ continuous'.onEnds = continuous.onEnds + 1 ]_vars
    /\ [][ ( continuous.handle = "live" /\ continuous'.onEnds # continuous.onEnds )
               => ( EndDelivered /\ ~continuous.stopped ) ]_vars

====
